---- MODULE Spec2Model ----
(***************************************************************************)
(* StoryWeaver: the "Smart Organize" layered auto-layout of the outline    *)
(* view (OutlineView.handleAutoLayout) and of the script graph view        *)
(* (GraphView.handleAutoLayout), together with the editor state they read  *)
(* and write back through onUpdate / onUpdateNodes.                        *)
(*                                                                         *)
(* Vertical coordinates are JavaScript numbers.  The layout halves them    *)
(* once per centred layer, so a y value is kept as an integer count of     *)
(* 1/Scale pixels; Scale is a power of two large enough for every chain    *)
(* of centred nodes the bounds allow.  NaN is a separate value.            *)
(***************************************************************************)
EXTENDS Integers, Sequences, FiniteSets, TLC

\* ------------------------------------------------------------------ bounds
MaxNodes == 3
MaxEdges == 3
SessionNodes == 3
SessionEdges == 2
MaxRuns == 2
MaxTrail == 2

\* --------------------------------------------------------- program constants
DepthCeiling == 50
LAYER_SPACING_X == 350
NODE_SPACING_Y == 50
LayerTop == 100
ColumnLeft == 100
Unparented == 9999
NODE_WIDTH == 320
LAYER_SPACING == 420
NODE_GAP == 60
HEADER_HEIGHT == 45
BASE_PADDING == 32
FIELD_HEIGHT == 60
TEXT_AREA_HEIGHT == 90
LOGIC_HEADER_HEIGHT == 30
CHOICE_ROW_HEIGHT == 40
SINGLE_NEXT_HEIGHT == 25
NextRowMargin == 15
MaxHistory == 50
LastHistoryIndex == 49

\* ------------------------------------------------------------- value domains
IdPool == <<"A", "B", "C", "D", "E">>
Ghost == "G"
Null == "null"
Undef == 0 - 1
Scale == 2 ^ (MaxNodes + 1)
NaN == 0 - (2 ^ 30)

Px(v) == v * Scale
IsNaN(v) == v = NaN

\* Ids of a script long enough to fill every layer up to the ceiling.
DeepIds == <<
    "n01", "n02", "n03", "n04", "n05", "n06", "n07", "n08",
    "n09", "n10", "n11", "n12", "n13", "n14", "n15", "n16",
    "n17", "n18", "n19", "n20", "n21", "n22", "n23", "n24",
    "n25", "n26", "n27", "n28", "n29", "n30", "n31", "n32",
    "n33", "n34", "n35", "n36", "n37", "n38", "n39", "n40",
    "n41", "n42", "n43", "n44", "n45", "n46", "n47", "n48",
    "n49", "n50", "n51", "n52" >>

RealIds(n) == {IdPool[i] : i \in 1..n}
Universe == RealIds(Len(IdPool)) \cup {Ghost} \cup {DeepIds[i] : i \in DOMAIN DeepIds}

RECURSIVE SeqSum(_)
SeqSum(s) == IF s = <<>> THEN 0 ELSE Head(s) + SeqSum(Tail(s))

Range(s) == {s[i] : i \in DOMAIN s}

SetMin(S) == CHOOSE v \in S : \A w \in S : v <= w
SetMax(S) == CHOOSE v \in S : \A w \in S : v >= w

IndexOf(s, e) == IF e \in Range(s) THEN SetMin({i \in DOMAIN s : s[i] = e}) - 1 ELSE Undef


\* ------------------------------------------------------------- editor state
VARIABLES
    appMode,        \* "SCRIPT" or "OUTLINE": which editor is on screen
    nodes,          \* script nodes (App state `nodes`)
    viewOptions,    \* script field visibility, read by calculateNodeHeight
    outlineNodes,   \* outline cards (App state `outlineNodes`)
    outlineEdges,   \* outline edges (App state `outlineEdges`)
    pc,             \* position of the running handleAutoLayout: "idle", "layering"
    queue,          \* BFS work queue of [id, layer, from]
    nodeLayer,      \* layer per id, Undef when the key is absent
    layerKeys,      \* insertion order of the keys of nodeLayer
    firstFrom,      \* per id, the node whose entry first assigned it a layer
    iterations,     \* iterations of the while loop executed by this run
    lastStep,       \* what the latest iteration did with the entry it popped
    layers,         \* layer number -> ordered ids, as left by the sorts
    outcome,        \* how the latest invocation ended, "running" while it runs
    writeBacks,     \* onUpdate / onUpdateNodes calls made by the latest invocation
    input,          \* the node and edge lists the latest invocation was given
    runs,           \* one record per finished invocation, oldest first
    scriptHistory,        \* App state: undo stack of the script editor
    scriptHistoryIndex,   \* App state: 0-based index of the current entry
    outlineHistory,       \* App state: undo stack of the outline editor
    outlineHistoryIndex,  \* App state: 0-based index of the current entry
    historyTimeout, \* the debounced history commit waiting in historyTimeoutRef
    mounted,        \* FALSE once a render has thrown and React removed the tree
    trail           \* the user's operations since the latest invocation ended

layoutVars == <<pc, queue, nodeLayer, layerKeys, firstFrom, iterations, lastStep, layers,
                outcome, writeBacks, input, runs>>
historyVars == <<scriptHistory, scriptHistoryIndex, outlineHistory, outlineHistoryIndex,
                 historyTimeout>>
vars == <<appMode, nodes, viewOptions, outlineNodes, outlineEdges, mounted, trail,
          layoutVars, historyVars>>

\* The node list and the edge list the running layout routine reads.
ActiveNodes == IF appMode = "OUTLINE" THEN outlineNodes ELSE nodes
NodeIdSeq == [i \in DOMAIN ActiveNodes |-> ActiveNodes[i].id]
NodeIdSet == Range(NodeIdSeq)
NodeById(id) == ActiveNodes[IndexOf(NodeIdSeq, id) + 1]

\* ----------------------------------------------------------- 1. graph build
\* [...new Set(targets)]: first occurrences, in order.
RECURSIVE Dedupe(_)
Dedupe(s) ==
    IF s = <<>> THEN <<>>
    ELSE LET init == Dedupe(SubSeq(s, 1, Len(s) - 1))
             last == s[Len(s)]
         IN IF last \in Range(init) THEN init ELSE Append(init, last)

NotNull(t) == t # Null

\* Script mode: the targets a node links to (choices of a CHOICE node,
\* nextId of any other node), falsy targets dropped, duplicates removed.
UniqueTargets(n) ==
    IF n.type = "CHOICE" THEN Dedupe(SelectSeq(n.choices, NotNull))
    ELSE IF n.nextId # Null THEN <<n.nextId>>
    ELSE <<>>

RECURSIVE ScriptLinks(_)
ScriptLinks(ns) ==
    IF ns = <<>> THEN <<>>
    ELSE LET n == Head(ns)
             ts == UniqueTargets(n)
         IN [i \in DOMAIN ts |-> [sourceId |-> n.id, targetId |-> ts[i]]]
            \o ScriptLinks(Tail(ns))

\* The (source, target) pairs in the order the build loops visit them.
Links ==
    IF appMode = "OUTLINE"
    THEN [i \in DOMAIN outlineEdges |->
            [sourceId |-> outlineEdges[i].sourceId, targetId |-> outlineEdges[i].targetId]]
    ELSE ScriptLinks(nodes)

RECURSIVE TargetsOf(_, _)
TargetsOf(ls, id) ==
    IF ls = <<>> THEN <<>>
    ELSE IF Head(ls).sourceId = id THEN <<Head(ls).targetId>> \o TargetsOf(Tail(ls), id)
    ELSE TargetsOf(Tail(ls), id)

RECURSIVE SourcesOf(_, _)
SourcesOf(ls, id) ==
    IF ls = <<>> THEN <<>>
    ELSE IF Head(ls).targetId = id THEN <<Head(ls).sourceId>> \o SourcesOf(Tail(ls), id)
    ELSE SourcesOf(Tail(ls), id)

\* adj[id] || [] : only node ids own a list.
adj(id) == IF id \in NodeIdSet THEN TargetsOf(Links, id) ELSE <<>>
\* revAdj[id] || [] : the parents, unknown source ids included.
revAdj(id) == IF id \in NodeIdSet THEN SourcesOf(Links, id) ELSE <<>>
\* inDegree[id]: one per link that names id as its target.
inDegree(id) == Len(SourcesOf(Links, id))

\* ------------------------------------------------------- 2. layer assignment
IsRoot(n) == inDegree(n.id) = 0
IsStart(n) == n.type = "START"
IsOtherRoot(n) == inDegree(n.id) = 0 /\ n.type # "START"

Entries(ns) == [i \in DOMAIN ns |-> [id |-> ns[i].id, layer |-> 0, from |-> Null]]

SeedQueue ==
    LET roots == IF appMode = "OUTLINE"
                 THEN Entries(SelectSeq(outlineNodes, IsRoot))
                 ELSE Entries(SelectSeq(nodes, IsStart)) \o Entries(SelectSeq(nodes, IsOtherRoot))
    IN IF roots = <<>> /\ Len(ActiveNodes) > 0
       THEN <<[id |-> ActiveNodes[1].id, layer |-> 0, from |-> Null]>>
       ELSE roots

ChildEntriesNoCeiling(id, layer) ==
    LET cs == adj(id)
    IN [i \in DOMAIN cs |-> [id |-> cs[i], layer |-> layer + 1, from |-> id]]

ChildEntriesSameLayer(id, layer) ==
    LET cs == adj(id)
    IN IF layer < DepthCeiling
       THEN [i \in DOMAIN cs |-> [id |-> cs[i], layer |-> layer, from |-> id]]
       ELSE <<>>

ChildEntriesTwoDeeper(id, layer) ==
    LET cs == adj(id)
    IN IF layer < DepthCeiling - 1
       THEN [i \in DOMAIN cs |-> [id |-> cs[i], layer |-> layer + 2, from |-> id]]
       ELSE <<>>

ChildEntries(id, layer) ==
    LET cs == adj(id)
    IN IF layer < DepthCeiling
       THEN [i \in DOMAIN cs |-> [id |-> cs[i], layer |-> layer + 1, from |-> id]]
       ELSE <<>>

SkipsIfAssigned(id, layer) == nodeLayer[id] # Undef
SkipsIfDeeper(id, layer) == nodeLayer[id] # Undef /\ nodeLayer[id] <= layer

\* The re-visitation guard: nodeLayer[id] !== undefined && nodeLayer[id] >= layer.
Skips(id, layer) == nodeLayer[id] # Undef /\ nodeLayer[id] >= layer

AssignLayerNext(id, layer) == [nodeLayer EXCEPT ![id] = layer + 1]

\* nodeLayer[id] = layer.
AssignLayer(id, layer) == [nodeLayer EXCEPT ![id] = layer]

\* Islands: every node whose key is still absent gets layer 0, in node order.
Unvisited(id) == nodeLayer[id] = Undef
IslandLayer == [id \in Universe |->
                  IF id \in NodeIdSet /\ nodeLayer[id] = Undef THEN 0 ELSE nodeLayer[id]]
IslandKeys == layerKeys \o SelectSeq(NodeIdSeq, Unvisited)

\* Object.entries(nodeLayer) grouped by layer: ids of one layer in key order.
GroupLayer(nl, keys, l) == LET InLayer(id) == nl[id] = l IN SelectSeq(keys, InLayer)
LayerNumbers(nl, keys) == {nl[keys[i]] : i \in DOMAIN keys}

\* ---------------------------------------------------- 3. crossing minimisation
\* Array.prototype.sort is stable: x goes after the last element whose score
\* is not greater.  A score is the fraction num[id] / den[id], den > 0.
ScoreLeq(num, den, a, b) == num[a] * den[b] <= num[b] * den[a]

RECURSIVE InsertByScore(_, _, _, _)
InsertByScore(sorted, x, num, den) ==
    IF sorted = <<>> THEN <<x>>
    ELSE IF ScoreLeq(num, den, sorted[Len(sorted)], x) THEN Append(sorted, x)
    ELSE Append(InsertByScore(SubSeq(sorted, 1, Len(sorted) - 1), x, num, den),
                sorted[Len(sorted)])

RECURSIVE StableSort(_, _, _)
StableSort(s, num, den) ==
    IF s = <<>> THEN <<>>
    ELSE InsertByScore(StableSort(SubSeq(s, 1, Len(s) - 1), num, den), s[Len(s)], num, den)

\* Parents of nid that sit in the previous layer (parentIndexMap[p] !== undefined).
ParentsIn(nid, prev) == LET InPrev(p) == p \in Range(prev) IN SelectSeq(revAdj(nid), InPrev)
ParentIndexSum(nid, prev) ==
    LET ps == ParentsIn(nid, prev) IN SeqSum([i \in DOMAIN ps |-> IndexOf(prev, ps[i])])

\* Outline: getAvgParentIdx, 9999 for a node without a parent in the previous layer.
OutlineSortLayer(cur, prev) ==
    LET num == [id \in Range(cur) |->
                  IF ParentsIn(id, prev) = <<>> THEN Unparented ELSE ParentIndexSum(id, prev)]
        den == [id \in Range(cur) |->
                  IF ParentsIn(id, prev) = <<>> THEN 1 ELSE Len(ParentsIn(id, prev))]
    IN StableSort(cur, num, den)

ScriptSortLayerSentinel(cur, prev) ==
    LET num == [id \in Range(cur) |->
                  IF ParentsIn(id, prev) = <<>> THEN Unparented ELSE ParentIndexSum(id, prev)]
        den == [id \in Range(cur) |->
                  IF ParentsIn(id, prev) = <<>> THEN 1 ELSE Len(ParentsIn(id, prev))]
    IN StableSort(cur, num, den)

\* Script: nodeBarycenter, the node's own index when it has no such parent.
ScriptSortLayer(cur, prev) ==
    LET num == [id \in Range(cur) |->
                  IF ParentsIn(id, prev) = <<>> THEN IndexOf(cur, id) ELSE ParentIndexSum(id, prev)]
        den == [id \in Range(cur) |->
                  IF ParentsIn(id, prev) = <<>> THEN 1 ELSE Len(ParentsIn(id, prev))]
    IN StableSort(cur, num, den)

\* The layer-0 comparators read nodes.find(...)!.position / .type: with two
\* or more ids to compare, an id that is not a node makes them throw.
SortRootsThrows(cur) == Len(cur) >= 2 /\ \E i \in DOMAIN cur : cur[i] \notin NodeIdSet

OutlineSortRootsDescending(cur) ==
    StableSort(cur, [id \in Range(cur) |-> 0 - NodeById(id).y], [id \in Range(cur) |-> 1])

\* Outline layer 0: ascending current y, ties in key order.
OutlineSortRoots(cur) ==
    StableSort(cur, [id \in Range(cur) |-> NodeById(id).y], [id \in Range(cur) |-> 1])

\* Script layer 0: the comparator answers -1 when a is START, 1 when only b is,
\* else 0.  With at most one START in the layer that is a consistent order
\* (START first, the rest in key order).  With two or more it is not, and the
\* order sort() leaves is implementation-defined: any permutation.
LayerOrders(s) ==
    {p \in [DOMAIN s -> Range(s)] : \A i, j \in DOMAIN s : i # j => p[i] # p[j]}
StartsIn(cur) == {i \in DOMAIN cur : NodeById(cur[i]).type = "START"}
ScriptSortRoots(cur) ==
    IF SortRootsThrows(cur) THEN {cur}
    ELSE IF Cardinality(StartsIn(cur)) >= 2 THEN LayerOrders(cur)
    ELSE {StableSort(cur, [id \in Range(cur) |-> IF NodeById(id).type = "START" THEN 0 ELSE 1],
                     [id \in Range(cur) |-> 1])}

\* The forward pass l = 1..maxLayer, each layer ordered against the final
\* order of the one before it (layers[l-1] || []).
RECURSIVE ForwardPass(_, _, _, _, _, _)
ForwardPass(nl, keys, l, maxLayer, prev, acc) ==
    IF l > maxLayer THEN acc
    ELSE LET cur == GroupLayer(nl, keys, l)
             sorted == IF appMode = "OUTLINE" THEN OutlineSortLayer(cur, prev)
                       ELSE ScriptSortLayer(cur, prev)
         IN ForwardPass(nl, keys, l + 1, maxLayer, sorted,
                        IF cur = <<>> THEN acc ELSE acc @@ (l :> sorted))

\* The layers record after the sorts, given the order chosen for layer 0.
SortedLayers(nl, keys, roots) ==
    ForwardPass(nl, keys, 1, SetMax(LayerNumbers(nl, keys)), roots,
                IF roots = <<>> THEN <<>> ELSE (0 :> roots))

\* ------------------------------------------------------ 4. coordinates
\* Script mode: calculateNodeHeight.
calculateNodeHeight(node) ==
    HEADER_HEIGHT + BASE_PADDING + FIELD_HEIGHT
    + (IF viewOptions.showScene THEN FIELD_HEIGHT ELSE 0)
    + (IF viewOptions.showArt THEN FIELD_HEIGHT ELSE 0)
    + (IF viewOptions.showExpression THEN FIELD_HEIGHT ELSE 0)
    + TEXT_AREA_HEIGHT
    + (IF viewOptions.showLogic
       THEN IF node.type = "CHOICE" THEN LOGIC_HEADER_HEIGHT + Len(node.choices) * CHOICE_ROW_HEIGHT
            ELSE IF node.type # "END" THEN SINGLE_NEXT_HEIGHT + NextRowMargin
            ELSE 0
       ELSE 0)

\* JavaScript arithmetic on y values, NaN included.
NumAdd(a, b) == IF IsNaN(a) \/ IsNaN(b) THEN NaN ELSE a + b
NumSub(a, b) == IF IsNaN(a) \/ IsNaN(b) THEN NaN ELSE a - b
NumHalf(a) == IF IsNaN(a) THEN NaN ELSE a \div 2
MathMax(a, b) == IF IsNaN(a) \/ IsNaN(b) THEN NaN ELSE IF a >= b THEN a ELSE b

\* x: 100 + (l * LAYER_SPACING_X) in the outline, 100 + (l * LAYER_SPACING) in the script.
OutlineColumnXNoMargin(l) == l * LAYER_SPACING_X
OutlineColumnX(l) == ColumnLeft + l * LAYER_SPACING_X
ScriptColumnX(l) == ColumnLeft + l * LAYER_SPACING

\* (Math.min(...tops) + Math.max(...bottoms)) / 2 over the parent nodes found
\* in newNodes; with no node found it is (Infinity + -Infinity) / 2 = NaN.
ParentSpanCenter(ns, parentIds) ==
    LET found == {i \in DOMAIN ns : ns[i].id \in parentIds}
        tops == {ns[i].y : i \in found}
        bottoms == {NumAdd(ns[i].y, Px(ns[i].height)) : i \in found}
    IN IF found = {} \/ NaN \in tops THEN NaN
       ELSE NumHalf(SetMin(tops) + SetMax(bottoms))

\* Outline: the y of one node of layer l, given the cursor previousNodeBottomY.
OutlineFinalYNoClamp(ns, nl, nid, l, cursor) ==
    LET InPrevLayer(pid) == nl[pid] # Undef /\ nl[pid] = l - 1
        validParents == SelectSeq(revAdj(nid), InPrevLayer)
        node == ns[IndexOf([i \in DOMAIN ns |-> ns[i].id], nid) + 1]
    IN IF Len(validParents) > 0
       THEN NumSub(ParentSpanCenter(ns, Range(validParents)), Px(node.height) \div 2)
       ELSE cursor

OutlineFinalY(ns, nl, nid, l, cursor) ==
    LET InPrevLayer(pid) == nl[pid] # Undef /\ nl[pid] = l - 1
        validParents == SelectSeq(revAdj(nid), InPrevLayer)
        node == ns[IndexOf([i \in DOMAIN ns |-> ns[i].id], nid) + 1]
        idealCenterY == IF Len(validParents) > 0
                        THEN ParentSpanCenter(ns, Range(validParents))
                        ELSE Px(0 - 1)
    IN IF idealCenterY # Px(0 - 1)
       THEN MathMax(cursor, NumSub(idealCenterY, Px(node.height) \div 2))
       ELSE cursor

RepositionRenamed(node, x, y) == [node EXCEPT !.x = x, !.y = y, !.id = Ghost]

\* { ...node, position: { x, y } }.
Reposition(node, x, y) == [node EXCEPT !.x = x, !.y = y]

\* One layer, top to bottom; ids that are not nodes are skipped.
RECURSIVE OutlinePlaceLayer(_, _, _, _, _)
OutlinePlaceLayer(ns, nl, ids, l, cursor) ==
    IF ids = <<>> THEN ns
    ELSE LET nid == Head(ids)
             k == IndexOf([i \in DOMAIN ns |-> ns[i].id], nid) + 1
         IN IF k = 0 THEN OutlinePlaceLayer(ns, nl, Tail(ids), l, cursor)
            ELSE LET finalY == OutlineFinalY(ns, nl, nid, l, cursor)
                     placed == [ns EXCEPT ![k] = Reposition(ns[k], OutlineColumnX(l), finalY)]
                 IN OutlinePlaceLayer(placed, nl, Tail(ids), l,
                                      NumAdd(NumAdd(finalY, Px(ns[k].height)), Px(NODE_SPACING_Y)))

ScriptPlaceLayerUnstacked(ns, ids, l, currentY) ==
    [i \in DOMAIN ns |-> IF ns[i].id \in Range(ids)
                         THEN Reposition(ns[i], ScriptColumnX(l), currentY)
                         ELSE ns[i]]

\* Script: each layer stacked from the top, no reference to parents.
RECURSIVE ScriptPlaceLayer(_, _, _, _)
ScriptPlaceLayer(ns, ids, l, currentY) ==
    IF ids = <<>> THEN ns
    ELSE LET nid == Head(ids)
             k == IndexOf([i \in DOMAIN ns |-> ns[i].id], nid) + 1
         IN IF k = 0 THEN ScriptPlaceLayer(ns, Tail(ids), l, currentY)
            ELSE ScriptPlaceLayer([ns EXCEPT ![k] = Reposition(ns[k], ScriptColumnX(l), currentY)],
                                  Tail(ids), l,
                                  currentY + Px(calculateNodeHeight(ns[k])) + Px(NODE_GAP))

\* layerKeys.forEach in ascending layer order.
RECURSIVE PlaceLayers(_, _, _, _)
PlaceLayers(ns, nl, sorted, todo) ==
    IF todo = {} THEN ns
    ELSE LET l == SetMin(todo)
             placed == IF appMode = "OUTLINE"
                       THEN OutlinePlaceLayer(ns, nl, sorted[l], l, Px(LayerTop))
                       ELSE ScriptPlaceLayer(ns, sorted[l], l, Px(LayerTop))
         IN PlaceLayers(placed, nl, sorted, todo \ {l})

CleanEdgesNone(es) == <<>>
CleanEdgesRelabelled(es) == [i \in DOMAIN es |-> [es[i] EXCEPT !.sourceAnchor = "right",
                                                    !.targetAnchor = "left", !.label = "next"]]

\* 5. Cleanup Edges (outline only).
CleanEdges(es) == [i \in DOMAIN es |->
                     [es[i] EXCEPT !.sourceAnchor = "right", !.targetAnchor = "left"]]

\* ------------------------------------------------- 6. write-back and history
\* historyTimeoutRef holding no pending commit.
NoTimeout == [mode |-> "none", nodes |-> <<>>, edges |-> <<>>, at |-> 0]

Min2(a, b) == IF a <= b THEN a ELSE b

\* The commit closure of pushScriptHistory, run with the index `at` it captured:
\* nothing when there is no entry at that index or the entry equals the new
\* list (JSON.stringify), else truncate after it, append, keep at most 50.
CommitScript(hist, at, newNodes) ==
    IF at + 1 > Len(hist) THEN hist
    ELSE IF hist[at + 1] = newNodes THEN hist
    ELSE LET sliced == Append(SubSeq(hist, 1, at + 1), newNodes)
         IN IF Len(sliced) > MaxHistory THEN Tail(sliced) ELSE sliced

\* The commit closure of pushOutlineHistory.
CommitOutline(hist, at, newNodes, newEdges) ==
    IF at + 1 > Len(hist) THEN hist
    ELSE IF hist[at + 1].nodes = newNodes /\ hist[at + 1].edges = newEdges THEN hist
    ELSE LET sliced == Append(SubSeq(hist, 1, at + 1), [nodes |-> newNodes, edges |-> newEdges])
         IN IF Len(sliced) > MaxHistory THEN Tail(sliced) ELSE sliced

\* pushScriptHistory(newNodes, immediate): any waiting commit is cancelled;
\* the new one runs at once or waits for the 800 ms timer.  The index moves
\* on whether or not the stack changed.
pushScriptHistory(newNodes, immediate) ==
    /\ UNCHANGED <<outlineHistory, outlineHistoryIndex>>
    /\ IF immediate
       THEN /\ scriptHistory' = CommitScript(scriptHistory, scriptHistoryIndex, newNodes)
            /\ scriptHistoryIndex' = Min2(scriptHistoryIndex + 1, LastHistoryIndex)
            /\ historyTimeout' = NoTimeout
       ELSE /\ historyTimeout' = [mode |-> "SCRIPT", nodes |-> newNodes, edges |-> <<>>,
                                  at |-> scriptHistoryIndex]
            /\ UNCHANGED <<scriptHistory, scriptHistoryIndex>>

pushOutlineHistory(newNodes, newEdges, immediate) ==
    /\ UNCHANGED <<scriptHistory, scriptHistoryIndex>>
    /\ IF immediate
       THEN /\ outlineHistory' = CommitOutline(outlineHistory, outlineHistoryIndex,
                                               newNodes, newEdges)
            /\ outlineHistoryIndex' = Min2(outlineHistoryIndex + 1, LastHistoryIndex)
            /\ historyTimeout' = NoTimeout
       ELSE /\ historyTimeout' = [mode |-> "OUTLINE", nodes |-> newNodes, edges |-> newEdges,
                                  at |-> outlineHistoryIndex]
            /\ UNCHANGED <<outlineHistory, outlineHistoryIndex>>

\* handleUpdateNodes: the script write-back, committed at once.
handleUpdateNodes(updatedNodes) ==
    /\ nodes' = updatedNodes
    /\ pushScriptHistory(updatedNodes, TRUE)

\* handleUpdateOutline: committed at once only when the number of nodes or of
\* edges differs from the current history entry, else debounced.
handleUpdateOutline(newNodes, newEdges) ==
    LET has == outlineHistoryIndex + 1 <= Len(outlineHistory)
        prevNodesCount == IF has THEN Len(outlineHistory[outlineHistoryIndex + 1].nodes) ELSE 0
        prevEdgesCount == IF has THEN Len(outlineHistory[outlineHistoryIndex + 1].edges) ELSE 0
    IN /\ outlineNodes' = newNodes
       /\ outlineEdges' = newEdges
       /\ pushOutlineHistory(newNodes, newEdges,
                             Len(newNodes) # prevNodesCount \/ Len(newEdges) # prevEdgesCount)

\* ------------------------------------------------------------ initial states
Reverse(s) == [i \in DOMAIN s |-> s[Len(s) + 1 - i]]

\* Position of an id in the order ids are created; the deleted node's id last.
Rank(id) == IF id = Ghost THEN Len(IdPool) + 1 ELSE IndexOf(IdPool, id) + 1
PairRank(e) == Rank(e[1]) * (Len(IdPool) + 2) + Rank(e[2])

\* Lists of at most k distinct (source, target) pairs, in rank order.
PairLists(pairs, k) ==
    UNION {{s \in [1..m -> pairs] : \A i \in 1..(m - 1) : PairRank(s[i]) < PairRank(s[i + 1])}
           : m \in 0..k}

\* How an edge list is arranged: in rank order, in reverse, or in rank order
\* with the first edge drawn a second time.
Arrangements == {"forward", "backward", "repeated"}
Arrange(s, how) ==
    IF how = "backward" THEN Reverse(s)
    ELSE IF how = "repeated" /\ s # <<>> THEN Append(s, s[1])
    ELSE s

\* Outline cards: as the editor creates them (200 x 120), or resized through
\* the inspector and dragged to different heights on the canvas.
CardSizings == {"created", "resized"}
ResizedCards == <<[width |-> 400, height |-> 60, y |-> 300],
                  [width |-> 200, height |-> 120, y |-> 100],
                  [width |-> 100, height |-> 200, y |-> 200]>>
OutlineCard(i, sizing) ==
    IF sizing = "created" THEN [width |-> 200, height |-> 120, y |-> 300]
    ELSE ResizedCards[((i - 1) % Len(ResizedCards)) + 1]

OutlineNodeList(n, sizing) ==
    [i \in 1..n |-> [id |-> IdPool[i], x |-> 40, y |-> Px(OutlineCard(i, sizing).y),
                     width |-> OutlineCard(i, sizing).width,
                     height |-> OutlineCard(i, sizing).height,
                     title |-> "New Card"]]

\* An edge may name an id that is no longer a node, at either end.
OutlineEnds(n) ==
    LET ids == RealIds(n) \cup {Ghost}
    IN {e \in ids \X ids : e[1] # Ghost \/ e[2] # Ghost}

OutlineEdgeList(ends) ==
    [i \in DOMAIN ends |-> [id |-> i, sourceId |-> ends[i][1], targetId |-> ends[i][2],
                            sourceAnchor |-> "bottom", targetAnchor |-> "top", label |-> ""]]

\* A project file holding a dangling edge G -> Y next to a self-loop and a
\* two-node cycle.
DanglingCycleNodes == OutlineNodeList(5, "created")
DanglingCycleEdges ==
    OutlineEdgeList(<< <<"A", "B">>, <<"B", "B">>, <<"B", "C">>, <<"A", "D">>,
                       <<"D", "E">>, <<"E", "D">>, <<"E", Ghost>>, <<Ghost, "C">> >>)

DefaultViewOptions == [showScene |-> TRUE, showArt |-> TRUE, showExpression |-> TRUE, showLogic |-> TRUE]
CompactViewOptions == [showScene |-> FALSE, showArt |-> TRUE, showExpression |-> FALSE, showLogic |-> TRUE]

\* Script links: the source is a node, the target a node or a deleted node.
ScriptEnds(n) == RealIds(n) \X (RealIds(n) \cup {Ghost})

\* Two ways a script carrying the same links is written down.  "plain": a
\* node with one link uses nextId, a node with several is a CHOICE, a node
\* with none is a DIALOGUE with nextId null.  "edited": a node with none is an
\* END, and a CHOICE also holds an unassigned row and a repeat of its first row.
ScriptStyles == {"plain", "edited"}
ScriptShape(id, ts, isStart, style) ==
    IF Len(ts) >= 2
    THEN [type |-> "CHOICE", nextId |-> Null,
          choices |-> IF style = "edited" THEN ts \o <<Null, ts[1]>> ELSE ts]
    ELSE [type |-> IF isStart THEN "START"
                   ELSE IF Len(ts) = 0 /\ style = "edited" THEN "END"
                   ELSE "DIALOGUE",
          nextId |-> IF Len(ts) = 0 THEN Null ELSE ts[1],
          choices |-> <<>>]

PairTargets(ls, id) ==
    LET From(e) == e[1] = id
        own == SelectSeq(ls, From)
    IN [i \in DOMAIN own |-> own[i][2]]

ScriptNodeList(n, ls, starts, style) ==
    [i \in 1..n |->
        LET sh == ScriptShape(IdPool[i], PairTargets(ls, IdPool[i]), IdPool[i] \in starts, style)
        IN [id |-> IdPool[i], type |-> sh.type, nextId |-> sh.nextId, choices |-> sh.choices,
            text |-> "", x |-> 400, y |-> Px(300)]]

\* Nodes that can carry the START type: those with at most one link.
StartCandidates(n, ls) == {id \in RealIds(n) : Len(PairTargets(ls, id)) <= 1}

\* A script of 52 nodes: a chain n01 -> ... -> n49 that fills layers 0..48,
\* whose last node is a CHOICE between n50, which points at itself, and n51,
\* which leads to n52.
DeepLinks ==
    [i \in 1..(DepthCeiling - 2) |-> <<DeepIds[i], DeepIds[i + 1]>>]
    \o << <<DeepIds[DepthCeiling - 1], DeepIds[DepthCeiling]>>,
          <<DeepIds[DepthCeiling - 1], DeepIds[DepthCeiling + 1]>>,
          <<DeepIds[DepthCeiling], DeepIds[DepthCeiling]>>,
          <<DeepIds[DepthCeiling + 1], DeepIds[DepthCeiling + 2]>> >>
DeepScriptNodes ==
    [i \in 1..(DepthCeiling + 2) |->
        LET sh == ScriptShape(DeepIds[i], PairTargets(DeepLinks, DeepIds[i]), FALSE, "plain")
        IN [id |-> DeepIds[i], type |-> sh.type, nextId |-> sh.nextId, choices |-> sh.choices,
            text |-> "", x |-> 400, y |-> Px(300)]]

NoLayers == [id \in Universe |-> Undef]
NoFrom == [id \in Universe |-> Null]

InitRun ==
    /\ pc = "idle"
    /\ queue = <<>>
    /\ nodeLayer = NoLayers
    /\ layerKeys = <<>>
    /\ firstFrom = NoFrom
    /\ iterations = 0
    /\ lastStep = "none"
    /\ layers = <<>>
    /\ outcome = "none"
    /\ writeBacks = 0
    /\ input = [nodes |-> <<>>, edges |-> <<>>]
    /\ runs = <<>>
    /\ mounted = TRUE
    /\ trail = <<>>

\* The undo stacks as a loaded project leaves them: one entry, index 0.
InitHistory ==
    /\ scriptHistory = <<nodes>>
    /\ scriptHistoryIndex = 0
    /\ outlineHistory = <<[nodes |-> outlineNodes, edges |-> outlineEdges]>>
    /\ outlineHistoryIndex = 0
    /\ historyTimeout = NoTimeout

InitOutline ==
    /\ appMode = "OUTLINE"
    /\ nodes = <<>>
    /\ viewOptions = DefaultViewOptions
    /\ \E n \in 0..MaxNodes, sizing \in CardSizings, how \in Arrangements :
         \E ends \in PairLists(OutlineEnds(n), MaxEdges) :
            /\ outlineNodes = OutlineNodeList(n, sizing)
            /\ outlineEdges = OutlineEdgeList(Arrange(ends, how))

InitDanglingCycle ==
    /\ appMode = "OUTLINE"
    /\ nodes = <<>>
    /\ viewOptions = DefaultViewOptions
    /\ outlineNodes = DanglingCycleNodes
    /\ outlineEdges = DanglingCycleEdges

InitScript ==
    /\ appMode = "SCRIPT"
    /\ outlineNodes = <<>>
    /\ outlineEdges = <<>>
    /\ \E n \in 0..MaxNodes, style \in ScriptStyles :
         \E ls \in PairLists(ScriptEnds(n), MaxEdges) :
            \E starts \in SUBSET StartCandidates(n, ls) :
               /\ nodes = ScriptNodeList(n, IF style = "edited" THEN Reverse(ls) ELSE ls,
                                         starts, style)
               /\ viewOptions = IF style = "edited" THEN CompactViewOptions ELSE DefaultViewOptions

InitDeepScript ==
    /\ appMode = "SCRIPT"
    /\ outlineNodes = <<>>
    /\ outlineEdges = <<>>
    /\ nodes = DeepScriptNodes
    /\ viewOptions = DefaultViewOptions

Init ==
    InitRun /\ (InitOutline \/ InitDanglingCycle \/ InitScript \/ InitDeepScript) /\ InitHistory

\* ------------------------------------------------------------------ actions
\* What is recorded about a finished invocation.
RunRecord(inp, how, outNodes, outEdges, nl, keys, ls) ==
    [input |-> inp, outcome |-> how, nodes |-> outNodes, edges |-> outEdges,
     nodeLayer |-> nl, keys |-> keys, layers |-> ls]

\* sort() is a function of the array and of the comparator's answers: where an
\* earlier invocation sorted the same layer 0 with the same START nodes in it,
\* the engine leaves the same order again.
StartIds(ns) == {ns[i].id : i \in {j \in DOMAIN ns : ns[j].type = "START"}}
RootsSortedBefore(cur) ==
    {runs[q].layers[0] :
        q \in {r \in DOMAIN runs :
                 /\ runs[r].outcome = "written"
                 /\ cur # <<>>
                 /\ GroupLayer(runs[r].nodeLayer, runs[r].keys, 0) = cur
                 /\ StartIds(runs[r].input.nodes) \cap Range(cur) = StartIds(nodes) \cap Range(cur)}}
ScriptRootOrders(cur) ==
    IF RootsSortedBefore(cur) # {} THEN RootsSortedBefore(cur) ELSE ScriptSortRoots(cur)

\* The props the routine reads: nodes, and in the outline also edges.
LayoutInput == [nodes |-> ActiveNodes,
                edges |-> IF appMode = "OUTLINE" THEN outlineEdges ELSE <<>>]

\* handleAutoLayout up to the while loop: the early return on an empty node
\* list, or the graph build and the seeding of the work queue.
BeginLayout ==
    /\ pc = "idle"
    /\ mounted
    /\ input' = LayoutInput
    /\ nodeLayer' = NoLayers
    /\ layerKeys' = <<>>
    /\ firstFrom' = NoFrom
    /\ iterations' = 0
    /\ lastStep' = "none"
    /\ layers' = <<>>
    /\ writeBacks' = 0
    /\ IF Len(ActiveNodes) = 0
       THEN /\ outcome' = "empty"
            /\ queue' = <<>>
            /\ runs' = Append(runs, RunRecord(LayoutInput, "empty", ActiveNodes, LayoutInput.edges,
                                                NoLayers, <<>>, <<>>))
            /\ UNCHANGED pc
       ELSE /\ pc' = "layering"
            /\ queue' = SeedQueue
            /\ outcome' = "running"
            /\ UNCHANGED runs
    /\ trail' = <<>>
    /\ UNCHANGED <<appMode, nodes, viewOptions, outlineNodes, outlineEdges, mounted, historyVars>>

\* The first click on "Smart Organize".
StartAutoLayout ==
    /\ outcome = "none"
    /\ BeginLayout

\* One iteration of while (queue.length > 0).
LayerStep ==
    /\ pc = "layering"
    /\ queue # <<>>
    /\ iterations' = iterations + 1
    /\ LET id == Head(queue).id
           layer == Head(queue).layer
       IN IF Skips(id, layer)
          THEN /\ queue' = Tail(queue)
               /\ lastStep' = "discarded"
               /\ UNCHANGED <<nodeLayer, layerKeys, firstFrom>>
          ELSE /\ nodeLayer' = AssignLayer(id, layer)
               /\ lastStep' = IF nodeLayer[id] = Undef THEN "assigned" ELSE "revised"
               /\ layerKeys' = IF nodeLayer[id] = Undef THEN Append(layerKeys, id) ELSE layerKeys
               /\ firstFrom' = IF nodeLayer[id] = Undef
                               THEN [firstFrom EXCEPT ![id] = Head(queue).from]
                               ELSE firstFrom
               /\ queue' = Tail(queue) \o ChildEntries(id, layer)
    /\ UNCHANGED <<appMode, nodes, viewOptions, outlineNodes, outlineEdges, mounted, trail,
                   pc, layers, outcome, writeBacks, input, runs, historyVars>>

\* The invocation ends in a TypeError: nothing is written back.
Throws(ls) ==
    /\ outcome' = "TypeError"
    /\ layers' = ls
    /\ runs' = Append(runs, RunRecord(input, "TypeError", ActiveNodes, input.edges,
                                        IslandLayer, IslandKeys, ls))
    /\ UNCHANGED <<nodes, outlineNodes, outlineEdges, writeBacks, historyVars>>

\* Everything after the queue has drained: islands, grouping, the sorts, the
\* coordinates and the single write-back; or the TypeError raised by
\* layers[0].sort (outline) / layers[l].sort (script) on a missing layer, or
\* by a layer-0 comparator on an id without a node.
FinishLayout ==
    /\ pc = "layering"
    /\ queue = <<>>
    /\ pc' = "idle"
    /\ nodeLayer' = IslandLayer
    /\ layerKeys' = IslandKeys
    /\ LET nl == IslandLayer
           keys == IslandKeys
           present == LayerNumbers(nl, keys)
           maxLayer == SetMax(present)
           group0 == GroupLayer(nl, keys, 0)
           grouped == [l \in present |-> GroupLayer(nl, keys, l)]
       IN IF appMode = "OUTLINE"
          THEN IF 0 \notin present \/ SortRootsThrows(group0)
               THEN Throws(grouped)
               ELSE LET sorted == SortedLayers(nl, keys, OutlineSortRoots(group0))
                        newNodes == PlaceLayers(outlineNodes, nl, sorted, present)
                        newEdges == CleanEdges(outlineEdges)
                    IN /\ layers' = sorted
                       /\ handleUpdateOutline(newNodes, newEdges)
                       /\ UNCHANGED nodes
                       /\ outcome' = "written"
                       /\ writeBacks' = writeBacks + 1
                       /\ runs' = Append(runs, RunRecord(input, "written", newNodes, newEdges,
                                                       nl, keys, sorted))
          ELSE \E roots \in ScriptRootOrders(group0) :
                 LET missing == (1..maxLayer) \ present
                     upTo == IF missing = {} THEN maxLayer ELSE SetMin(missing) - 1
                     sorted == ForwardPass(nl, keys, 1, upTo, roots,
                                           IF roots = <<>> THEN <<>> ELSE (0 :> roots))
                     newNodes == PlaceLayers(nodes, nl, sorted, present)
                 IN IF SortRootsThrows(group0)
                    THEN Throws(grouped)
                    ELSE IF missing # {}
                    THEN Throws([l \in present |-> IF l <= upTo THEN sorted[l] ELSE grouped[l]])
                    ELSE /\ layers' = sorted
                         /\ handleUpdateNodes(newNodes)
                         /\ UNCHANGED <<outlineNodes, outlineEdges>>
                         /\ outcome' = "written"
                         /\ writeBacks' = writeBacks + 1
                         /\ runs' = Append(runs, RunRecord(input, "written", newNodes, <<>>,
                                                         nl, keys, sorted))
    /\ UNCHANGED <<appMode, viewOptions, mounted, trail, queue, firstFrom, iterations,
                   lastStep, input>>

Next == StartAutoLayout \/ LayerStep \/ FinishLayout

Spec == Init /\ [][Next]_vars

\* ------------------------------------------------------------ editing session
\* A longer session: the layout may be invoked again, a project file may be
\* opened between two invocations, and the user may undo and redo.

\* Another click on "Smart Organize".
RepeatAutoLayout ==
    /\ outcome \notin {"none", "running"}
    /\ Len(runs) < MaxRuns
    /\ BeginLayout

WithoutEdge(es, i) == SubSeq(es, 1, i - 1) \o SubSeq(es, i + 1, Len(es))

\* A node with every reference to id g cleared (nextId null, the choice row
\* left unassigned).
ClearTarget(n, g) ==
    [n EXCEPT !.nextId = IF @ = g THEN Null ELSE @,
              !.choices = [j \in DOMAIN @ |-> IF @[j] = g THEN Null ELSE @[j]]]

\* Files that hold the given project without one of its dangling links.
FilesWithoutDangling(proj) ==
    LET ids == {proj.nodes[i].id : i \in DOMAIN proj.nodes}
    IN IF appMode = "OUTLINE"
       THEN {[nodes |-> proj.nodes, edges |-> WithoutEdge(proj.edges, i)] :
                i \in {j \in DOMAIN proj.edges :
                          proj.edges[j].sourceId \notin ids \/ proj.edges[j].targetId \notin ids}}
       ELSE {[nodes |-> [proj.nodes EXCEPT ![i] = ClearTarget(@, Ghost)], edges |-> <<>>] :
                i \in {j \in DOMAIN proj.nodes : Ghost \in Range(UniqueTargets(proj.nodes[j]))}}

\* Files that hold the given project with one of its links present once more:
\* a second edge with the same ends, or an unassigned choice row pointed at a
\* target another row already has.
FilesWithDuplicate(proj) ==
    IF appMode = "OUTLINE"
    THEN {[nodes |-> proj.nodes,
           edges |-> Append(proj.edges, [proj.edges[i] EXCEPT !.id = Len(proj.edges) + 1])] :
             i \in DOMAIN proj.edges}
    ELSE {[nodes |-> [proj.nodes EXCEPT ![f[1]].choices[f[2]] = proj.nodes[f[1]].choices[f[3]]],
           edges |-> <<>>] :
             f \in {g \in (DOMAIN proj.nodes) \X (1..(SessionEdges + 2)) \X (1..(SessionEdges + 2)) :
                      /\ proj.nodes[g[1]].type = "CHOICE"
                      /\ g[2] \in DOMAIN proj.nodes[g[1]].choices
                      /\ g[3] \in DOMAIN proj.nodes[g[1]].choices
                      /\ proj.nodes[g[1]].choices[g[2]] = Null
                      /\ proj.nodes[g[1]].choices[g[3]] # Null}}

\* handleOpenProjectClick: the file replaces the lists of its editor and the
\* undo stack becomes that single state.  The files opened here are variants
\* of the project the first invocation was given.
handleOpenProjectClick ==
    /\ pc = "idle"
    /\ mounted
    /\ Len(runs) = 1
    /\ trail = <<>>
    /\ \E file \in FilesWithoutDangling(runs[1].input) \cup FilesWithDuplicate(runs[1].input) :
          IF appMode = "OUTLINE"
          THEN /\ outlineNodes' = file.nodes
               /\ outlineEdges' = file.edges
               /\ outlineHistory' = <<[nodes |-> file.nodes, edges |-> file.edges]>>
               /\ outlineHistoryIndex' = 0
               /\ UNCHANGED <<nodes, scriptHistory, scriptHistoryIndex>>
          ELSE /\ nodes' = file.nodes
               /\ scriptHistory' = <<file.nodes>>
               /\ scriptHistoryIndex' = 0
               /\ UNCHANGED <<outlineNodes, outlineEdges, outlineHistory, outlineHistoryIndex>>
    /\ trail' = <<"open">>
    /\ UNCHANGED <<appMode, viewOptions, mounted, historyTimeout, layoutVars>>

\* handleUndo: one step back in the stack of the editor on screen; nothing at
\* index 0.  An index past the end of the stack yields undefined: the script
\* editor is handed undefined as its node list and its render throws, the
\* outline handler throws on .nodes after the index has been set.
handleUndo ==
    /\ pc = "idle"
    /\ mounted
    /\ Len(trail) < MaxTrail
    /\ trail' = Append(trail, "undo")
    /\ IF appMode = "SCRIPT"
       THEN /\ IF scriptHistoryIndex > 0
               THEN /\ scriptHistoryIndex' = scriptHistoryIndex - 1
                    /\ IF scriptHistoryIndex <= Len(scriptHistory)
                       THEN nodes' = scriptHistory[scriptHistoryIndex] /\ UNCHANGED mounted
                       ELSE nodes' = <<>> /\ mounted' = FALSE
               ELSE UNCHANGED <<scriptHistoryIndex, nodes, mounted>>
            /\ UNCHANGED <<outlineNodes, outlineEdges, outlineHistoryIndex>>
       ELSE /\ IF outlineHistoryIndex > 0
               THEN /\ outlineHistoryIndex' = outlineHistoryIndex - 1
                    /\ IF outlineHistoryIndex <= Len(outlineHistory)
                       THEN /\ outlineNodes' = outlineHistory[outlineHistoryIndex].nodes
                            /\ outlineEdges' = outlineHistory[outlineHistoryIndex].edges
                       ELSE UNCHANGED <<outlineNodes, outlineEdges>>
               ELSE UNCHANGED <<outlineHistoryIndex, outlineNodes, outlineEdges>>
            /\ UNCHANGED <<nodes, scriptHistoryIndex, mounted>>
    /\ UNCHANGED <<appMode, viewOptions, scriptHistory, outlineHistory, historyTimeout, layoutVars>>

\* handleRedo: one step forward when the index is not the last one.
handleRedo ==
    /\ pc = "idle"
    /\ mounted
    /\ Len(trail) < MaxTrail
    /\ trail' = Append(trail, "redo")
    /\ IF appMode = "SCRIPT"
       THEN /\ IF scriptHistoryIndex < Len(scriptHistory) - 1
               THEN /\ scriptHistoryIndex' = scriptHistoryIndex + 1
                    /\ nodes' = scriptHistory[scriptHistoryIndex + 2]
               ELSE UNCHANGED <<scriptHistoryIndex, nodes>>
            /\ UNCHANGED <<outlineNodes, outlineEdges, outlineHistoryIndex>>
       ELSE /\ IF outlineHistoryIndex < Len(outlineHistory) - 1
               THEN /\ outlineHistoryIndex' = outlineHistoryIndex + 1
                    /\ outlineNodes' = outlineHistory[outlineHistoryIndex + 2].nodes
                    /\ outlineEdges' = outlineHistory[outlineHistoryIndex + 2].edges
               ELSE UNCHANGED <<outlineHistoryIndex, outlineNodes, outlineEdges>>
            /\ UNCHANGED <<nodes, scriptHistoryIndex>>
    /\ UNCHANGED <<appMode, viewOptions, mounted, scriptHistory, outlineHistory, historyTimeout,
                   layoutVars>>

\* The 800 ms timer of a debounced commit fires: the closure commits against
\* the index it captured when it was scheduled.
HistoryTimeout ==
    /\ pc = "idle"
    /\ mounted
    /\ historyTimeout # NoTimeout
    /\ historyTimeout' = NoTimeout
    /\ IF historyTimeout.mode = "SCRIPT"
       THEN /\ scriptHistory' = CommitScript(scriptHistory, historyTimeout.at, historyTimeout.nodes)
            /\ scriptHistoryIndex' = Min2(scriptHistoryIndex + 1, LastHistoryIndex)
            /\ UNCHANGED <<outlineHistory, outlineHistoryIndex>>
       ELSE /\ outlineHistory' = CommitOutline(outlineHistory, historyTimeout.at,
                                               historyTimeout.nodes, historyTimeout.edges)
            /\ outlineHistoryIndex' = Min2(outlineHistoryIndex + 1, LastHistoryIndex)
            /\ UNCHANGED <<scriptHistory, scriptHistoryIndex>>
    /\ UNCHANGED <<appMode, nodes, viewOptions, outlineNodes, outlineEdges, mounted, trail,
                   layoutVars>>

\* Two roots and two cards that each hang below both of them.
FanInNodes == OutlineNodeList(4, "created")
FanInEdges ==
    OutlineEdgeList(<< <<"A", "C">>, <<"B", "C">>, <<"A", "D">>, <<"B", "D">> >>)

SessionInitOutline ==
    /\ appMode = "OUTLINE"
    /\ nodes = <<>>
    /\ viewOptions = DefaultViewOptions
    /\ \/ \E n \in 0..SessionNodes, sizing \in CardSizings, how \in Arrangements :
             \E ends \in PairLists(OutlineEnds(n), SessionEdges) :
                /\ outlineNodes = OutlineNodeList(n, sizing)
                /\ outlineEdges = OutlineEdgeList(Arrange(ends, how))
       \/ outlineNodes = FanInNodes /\ outlineEdges = FanInEdges

SessionInitScript ==
    /\ appMode = "SCRIPT"
    /\ outlineNodes = <<>>
    /\ outlineEdges = <<>>
    /\ \E n \in 0..SessionNodes, style \in ScriptStyles :
         \E ls \in PairLists(ScriptEnds(n), SessionEdges) :
            \E starts \in SUBSET StartCandidates(n, ls) :
               /\ nodes = ScriptNodeList(n, IF style = "edited" THEN Reverse(ls) ELSE ls,
                                         starts, style)
               /\ viewOptions = IF style = "edited" THEN CompactViewOptions ELSE DefaultViewOptions

SessionInit == InitRun /\ (SessionInitOutline \/ SessionInitScript) /\ InitHistory

SessionNext ==
    \/ StartAutoLayout
    \/ LayerStep
    \/ FinishLayout
    \/ RepeatAutoLayout
    \/ handleOpenProjectClick
    \/ handleUndo
    \/ handleRedo
    \/ HistoryTimeout

SessionSpec == SessionInit /\ [][SessionNext]_vars

\* ================================================================= properties
RunEnded == pc = "idle" /\ outcome \in {"written", "TypeError"}
Spacing == IF appMode = "OUTLINE" THEN LAYER_SPACING_X ELSE LAYER_SPACING
Gap == IF appMode = "OUTLINE" THEN NODE_SPACING_Y ELSE NODE_GAP
HeightOf(n) == IF appMode = "OUTLINE" THEN n.height ELSE calculateNodeHeight(n)
HasLink(u, v) == \E i \in DOMAIN Links : Links[i].sourceId = u /\ Links[i].targetId = v
TwoNodeCycle ==
    /\ Len(ActiveNodes) = 2
    /\ {<<Links[i].sourceId, Links[i].targetId>> : i \in DOMAIN Links} = {<<"A", "B">>, <<"B", "A">>}
    /\ Len(Links) = 2

\* C1: every invocation on a non-empty node list ends without an exception
\* and with a write-back, whatever the graph (cycles and self-loops included).
C1_NeverThrows ==
    (pc = "idle" /\ outcome # "none" /\ Len(ActiveNodes) > 0) => outcome = "written"

\* C2: after a layout run every input node id appears exactly once in the node
\* list handed back, with a position computed by this run (its column is the
\* one of its layer), and no other id appears.
C2_Totality ==
    RunEnded =>
        /\ outcome = "written"
        /\ \A i, j \in DOMAIN ActiveNodes : ActiveNodes[i].id = ActiveNodes[j].id => i = j
        /\ \A i \in DOMAIN ActiveNodes :
              /\ nodeLayer[ActiveNodes[i].id] # Undef
              /\ ActiveNodes[i].x = ColumnLeft + nodeLayer[ActiveNodes[i].id] * Spacing

\* C3: the work queue always drains: a run executes at most
\* |nodes| + (ceiling + 1) * |links| iterations of the FIFO loop, each of which
\* pops one entry; the entries still queued never exceed what is left of that
\* budget.
C3_QueueDrains ==
    /\ iterations <= Len(ActiveNodes) + (DepthCeiling + 1) * Len(Links)
    /\ Len(queue) <= Len(ActiveNodes) + (DepthCeiling + 1) * Len(Links) - iterations
C3_Witness ==
    /\ RunEnded
    /\ iterations > DepthCeiling
    /\ \E i \in DOMAIN Links : Links[i].sourceId = Links[i].targetId

\* C4: for the two-node cycle A -> B, B -> A the run ends with one of the
\* nodes in layer 0, the other in layer 1, and both in the output.
C4_CycleScenario ==
    (TwoNodeCycle /\ pc = "idle" /\ outcome # "none") =>
        /\ outcome = "written"
        /\ {nodeLayer["A"], nodeLayer["B"]} = {0, 1}

\* C5 (as stated): if v was first reached from u, the final layers satisfy
\* layer(v) = layer(u) + 1.
C5_FirstReachedExactlyNext ==
    RunEnded => \A v \in NodeIdSet :
        firstFrom[v] # Null => nodeLayer[v] = nodeLayer[firstFrom[v]] + 1

\* C5 (amended): if v was first reached from u and u's final layer is below
\* the ceiling, then layer(v) >= layer(u) + 1.
C5_FirstReachedDeeper ==
    RunEnded => \A v \in NodeIdSet :
        (firstFrom[v] # Null /\ nodeLayer[firstFrom[v]] < DepthCeiling)
            => nodeLayer[v] >= nodeLayer[firstFrom[v]] + 1
C5_Witness ==
    /\ RunEnded
    /\ \E v \in NodeIdSet : /\ firstFrom[v] # Null
                           /\ nodeLayer[firstFrom[v]] < DepthCeiling
                           /\ nodeLayer[v] > nodeLayer[firstFrom[v]] + 1

\* Comparisons of JavaScript numbers: false as soon as one side is NaN.
NumGeq(a, b) == ~IsNaN(a) /\ ~IsNaN(b) /\ a >= b
NumLess(a, b) == ~IsNaN(a) /\ ~IsNaN(b) /\ a < b

\* The nodes of layer l in the layer's final order (ids without a node skipped).
IsNodeId(id) == id \in NodeIdSet
PlacedIn(l) == SelectSeq(layers[l], IsNodeId)
Bottom(n) == NumAdd(n.y, Px(HeightOf(n)))
Centre(n) == NumAdd(n.y, Px(HeightOf(n)) \div 2)

\* C6: within a layer, in the layer's final order, a later node's top is at
\* least the earlier node's top + height + gap.
C6_NoOverlapInLayer ==
    outcome = "written" =>
        \A l \in DOMAIN layers : \A i, j \in DOMAIN PlacedIn(l) :
            i < j => NumGeq(NodeById(PlacedIn(l)[j]).y,
                            NumAdd(Bottom(NodeById(PlacedIn(l)[i])), Px(Gap)))

\* C7: every node's x is 100 + layer * spacing, so two nodes share x exactly
\* when they share a layer.
C7_ColumnAlignment ==
    outcome = "written" =>
        /\ \A i \in DOMAIN ActiveNodes :
              ActiveNodes[i].x = ColumnLeft + nodeLayer[ActiveNodes[i].id] * Spacing
        /\ \A i, j \in DOMAIN ActiveNodes :
              (ActiveNodes[i].x = ActiveNodes[j].x)
                 <=> (nodeLayer[ActiveNodes[i].id] = nodeLayer[ActiveNodes[j].id])
C7_Witness ==
    /\ outcome = "written"
    /\ \E i, j, k \in DOMAIN ActiveNodes :
          /\ i # j
          /\ ActiveNodes[i].x = ActiveNodes[j].x
          /\ ActiveNodes[k].x > ActiveNodes[i].x

\* C8: in outline mode the output rectangles [x, x+width) x [y, y+height) of
\* two distinct nodes never intersect.
Intersect(a, b) ==
    /\ a.x < b.x + b.width
    /\ b.x < a.x + a.width
    /\ NumLess(a.y, Bottom(b))
    /\ NumLess(b.y, Bottom(a))
C8_NoOverlap ==
    (appMode = "OUTLINE" /\ outcome = "written") =>
        \A i, j \in DOMAIN outlineNodes :
            i # j => ~Intersect(outlineNodes[i], outlineNodes[j])

\* C9: a node with no edges at all, and every node the BFS never reached, is
\* in layer 0 and gets a position in column 0 clear of every other layer-0 node.
Isolated(id) == \A i \in DOMAIN Links : Links[i].sourceId # id /\ Links[i].targetId # id
Reached(id) == firstFrom[id] # Null \/ \E i \in DOMAIN SeedQueue : SeedQueue[i].id = id
C9_DisconnectedInLayerZero ==
    RunEnded =>
        \A i \in DOMAIN ActiveNodes :
            LET d == ActiveNodes[i]
            IN (Isolated(d.id) \/ ~Reached(d.id)) =>
                  /\ nodeLayer[d.id] = 0
                  /\ outcome = "written"
                  /\ d.x = ColumnLeft
                  /\ \A j \in DOMAIN ActiveNodes :
                        (j # i /\ nodeLayer[ActiveNodes[j].id] = 0) =>
                            \/ NumGeq(ActiveNodes[j].y, NumAdd(Bottom(d), Px(Gap)))
                            \/ NumGeq(d.y, NumAdd(Bottom(ActiveNodes[j]), Px(Gap)))

\* C10: the chain u -> v -> w.
Chain(u, v, w) ==
    /\ NodeIdSet = {u, v, w}
    /\ Cardinality({u, v, w}) = 3
    /\ Len(Links) = 2
    /\ HasLink(u, v) /\ HasLink(v, w)

\* C10 (as stated): layers 0, 1, 2, three distinct x, v centred on u and w
\* centred on v.
C10_ChainCentred ==
    (pc = "idle" /\ outcome # "none" /\ Len(ActiveNodes) = 3) =>
      \A u, v, w \in NodeIdSet :
        Chain(u, v, w) =>
            /\ outcome = "written"
            /\ nodeLayer[u] = 0 /\ nodeLayer[v] = 1 /\ nodeLayer[w] = 2
            /\ Cardinality({NodeById(u).x, NodeById(v).x, NodeById(w).x}) = 3
            /\ Centre(NodeById(v)) = Centre(NodeById(u))
            /\ Centre(NodeById(w)) = Centre(NodeById(v))

\* C10 (amended): layers 0, 1, 2 and three distinct x; in outline mode u's top
\* is 100 and each of v, w has top = max(100, centre of its parent - own
\* height / 2); in script mode all three tops are 100.
ChainTop(child, parent) ==
    IF appMode = "OUTLINE"
    THEN MathMax(Px(LayerTop), NumSub(Centre(parent), Px(HeightOf(child)) \div 2))
    ELSE Px(LayerTop)
C10_ChainPlaced ==
    (pc = "idle" /\ outcome # "none" /\ Len(ActiveNodes) = 3) =>
      \A u, v, w \in NodeIdSet :
        Chain(u, v, w) =>
            /\ outcome = "written"
            /\ nodeLayer[u] = 0 /\ nodeLayer[v] = 1 /\ nodeLayer[w] = 2
            /\ Cardinality({NodeById(u).x, NodeById(v).x, NodeById(w).x}) = 3
            /\ NodeById(u).y = Px(LayerTop)
            /\ NodeById(v).y = ChainTop(NodeById(v), NodeById(u))
            /\ NodeById(w).y = ChainTop(NodeById(w), NodeById(v))
C10_Witness ==
    /\ appMode = "OUTLINE"
    /\ outcome = "written"
    /\ \E u, v, w \in NodeIdSet :
          /\ Chain(u, v, w)
          /\ NodeById(v).y > Px(LayerTop)
          /\ Centre(NodeById(v)) = Centre(NodeById(u))
          /\ NodeById(w).y = Px(LayerTop)
          /\ Centre(NodeById(w)) # Centre(NodeById(v))

\* C11 (as stated): an entry is enqueued only while layer + 1 stays below the
\* ceiling, so no queue entry and no node ever carries a layer of 50 or more.
C11_LayersBelowCeiling ==
    /\ \A i \in DOMAIN queue : queue[i].layer < DepthCeiling
    /\ \A id \in Universe : nodeLayer[id] < DepthCeiling

\* C11 (amended): an entry (neighbor, layer + 1) is enqueued only when layer
\* is below the ceiling, so no queue entry and no node ever carries a layer
\* above 50.
C11_LayersUpToCeiling ==
    /\ \A i \in DOMAIN queue : queue[i].layer <= DepthCeiling
    /\ \A i \in DOMAIN queue :
          queue[i].from # Null => nodeLayer[queue[i].from] >= queue[i].layer - 1
    /\ \A id \in Universe : nodeLayer[id] <= DepthCeiling
C11_Witness ==
    /\ RunEnded
    /\ \E id \in NodeIdSet : nodeLayer[id] = DepthCeiling

\* C18 (as stated): during layering a layer, once assigned, never changes.
C18_FirstAssignmentWins ==
    [][pc = "layering" =>
          \A id \in Universe : nodeLayer[id] # Undef => nodeLayer'[id] = nodeLayer[id]]_vars

\* C18 (amended): during layering an assigned layer changes only when the
\* popped entry names that node with a strictly greater layer, and it then
\* becomes that entry's layer; an entry whose layer is not greater than the
\* assigned one (a back-edge to a node at equal or greater depth) never
\* revises it.
C18_DeeperAssignmentWins ==
    [][(pc = "layering" /\ pc' = "layering") =>
          \A id \in Universe :
             (nodeLayer[id] # Undef /\ nodeLayer'[id] # nodeLayer[id]) =>
                 /\ queue # <<>>
                 /\ Head(queue).id = id
                 /\ Head(queue).layer > nodeLayer[id]
                 /\ nodeLayer'[id] = Head(queue).layer]_vars
C18_Witness ==
    /\ pc = "layering"
    /\ lastStep = "revised"
    /\ \E id \in NodeIdSet : nodeLayer[id] > 1 /\ firstFrom[id] # Null

\* C19: during layering a node's layer never decreases; a popped entry
\* (id, layer) is discarded, leaving the assignment alone and enqueuing
\* nothing, whenever id already has a layer >= layer; otherwise id's layer
\* becomes exactly layer.
C19_NoDemotion ==
    [][(pc = "layering" /\ pc' = "layering") =>
          /\ \A id \in Universe : nodeLayer'[id] >= nodeLayer[id]
          /\ queue # <<>>
          /\ LET id == Head(queue).id
                 layer == Head(queue).layer
             IN IF nodeLayer[id] # Undef /\ nodeLayer[id] >= layer
                THEN nodeLayer' = nodeLayer /\ queue' = Tail(queue)
                ELSE nodeLayer'[id] = layer]_vars
C19_Witness ==
    /\ pc = "layering"
    /\ lastStep = "discarded"
    /\ \E id \in NodeIdSet : nodeLayer[id] > 0

\* C20: after layering, for every edge u -> v between two nodes such that u
\* was reached by the BFS and ends below the ceiling, layer(v) >= layer(u) + 1.
C20_EdgesPointForward ==
    RunEnded =>
        \A i \in DOMAIN Links :
            LET u == Links[i].sourceId
                v == Links[i].targetId
            IN (u \in NodeIdSet /\ v \in NodeIdSet /\ Reached(u) /\ nodeLayer[u] < DepthCeiling)
                  => nodeLayer[v] >= nodeLayer[u] + 1
C20_Witness ==
    /\ RunEnded
    /\ \E i \in DOMAIN Links :
          /\ Links[i].sourceId \in NodeIdSet /\ Links[i].targetId \in NodeIdSet
          /\ Reached(Links[i].sourceId)
          /\ firstFrom[Links[i].targetId] # Links[i].sourceId
          /\ nodeLayer[Links[i].targetId] = nodeLayer[Links[i].sourceId] + 1

\* C14: a layout run changes nothing about a node except its position: the
\* list written back has the length and the order of the input and each node
\* keeps every field but x and y; the input list itself is not changed, neither
\* while the routine runs nor when it throws.
SameButPosition(a, b) == [a EXCEPT !.x = 0, !.y = 0] = [b EXCEPT !.x = 0, !.y = 0]
C14_Frame ==
    /\ pc = "layering" => ActiveNodes = input.nodes
    /\ \A r \in DOMAIN runs :
          /\ Len(runs[r].nodes) = Len(runs[r].input.nodes)
          /\ \A i \in DOMAIN runs[r].nodes :
                SameButPosition(runs[r].nodes[i], runs[r].input.nodes[i])
          /\ runs[r].outcome # "written" => runs[r].nodes = runs[r].input.nodes
C14_Witness ==
    \E r \in DOMAIN runs :
        /\ runs[r].outcome = "written"
        /\ Len(runs[r].nodes) >= 2
        /\ \A i \in DOMAIN runs[r].nodes : runs[r].nodes[i] # runs[r].input.nodes[i]

\* C15: an invocation on an empty node list makes no write-back call; one on
\* a non-empty list makes exactly one, and none before it has ended, so the
\* node list the caller holds is the input until then.
C15_SingleWriteBack ==
    /\ pc = "layering" => (writeBacks = 0 /\ ActiveNodes = input.nodes)
    /\ (pc = "idle" /\ outcome # "none") =>
          writeBacks = IF Len(input.nodes) = 0 THEN 0 ELSE 1

\* Where a run put each node.
PositionsOf(ns) == [i \in DOMAIN ns |-> <<ns[i].id, ns[i].x, ns[i].y>>]

\* The second invocation was given the project of the first without one of
\* its dangling links.
DanglingRemoved ==
    /\ Len(runs) = 2
    /\ runs[2].input \in FilesWithoutDangling(runs[1].input)

\* C12: a link that names an id outside the node set is ignored: when both
\* invocations complete, the positions written for a project are those
\* written for the same project with that link removed.
C12_DanglingIgnored ==
    (DanglingRemoved /\ runs[1].outcome = "written" /\ runs[2].outcome = "written")
        => PositionsOf(runs[1].nodes) = PositionsOf(runs[2].nodes)

\* The second invocation was given the project of the first with one of its
\* links present a second time.
DuplicateAdded ==
    /\ Len(runs) = 2
    /\ runs[2].input \in FilesWithDuplicate(runs[1].input)

\* C13: a second link with the same source and target changes nothing: when
\* both invocations complete, every node has the same layer, the layers hold
\* their nodes in the same order, and the positions written are the same.
C13_DuplicateIgnored ==
    (DuplicateAdded /\ runs[1].outcome = "written" /\ runs[2].outcome = "written")
        => /\ runs[1].nodeLayer = runs[2].nodeLayer
           /\ runs[1].layers = runs[2].layers
           /\ PositionsOf(runs[1].nodes) = PositionsOf(runs[2].nodes)

\* The second invocation was given what the first one wrote back.
RanOnOwnOutput ==
    /\ Len(runs) = 2
    /\ runs[1].outcome = "written"
    /\ runs[2].input = [nodes |-> runs[1].nodes, edges |-> runs[1].edges]

\* C17: a layout of the result of a layout completes and gives every node the
\* layer it had.
C17_LayersIdempotent ==
    RanOnOwnOutput => (runs[2].outcome = "written" /\ runs[2].nodeLayer = runs[1].nodeLayer)

C17_Witness ==
    /\ RanOnOwnOutput
    /\ PositionsOf(runs[1].nodes) # PositionsOf(runs[1].input.nodes)
    /\ \E id \in Universe : runs[2].nodeLayer[id] >= 2

\* The latest invocation wrote back and moved at least one node, and only
\* Undo / Redo have been used since it ended.
LastRun == runs[Len(runs)]
LayoutMovedNodes ==
    /\ pc = "idle"
    /\ Len(runs) >= 1
    /\ LastRun.outcome = "written"
    /\ PositionsOf(LastRun.nodes) # PositionsOf(LastRun.input.nodes)

\* C16: one Undo right after a layout that moved a node puts every node back
\* where it was before the layout, and one Redo after that puts every node
\* where the layout put it, in the script editor and in the outline.
C16_UndoRedoLayout ==
    LayoutMovedNodes =>
        /\ trail = <<"undo">> =>
              (mounted /\ PositionsOf(ActiveNodes) = PositionsOf(LastRun.input.nodes))
        /\ trail = <<"undo", "redo">> =>
              (mounted /\ PositionsOf(ActiveNodes) = PositionsOf(LastRun.nodes))

\* C26: the edge list an outline layout hands back has the length and order
\* of the input's, every edge with sourceAnchor right and targetAnchor left and
\* with the id, sourceId, targetId and label it had.
C26_EdgeCleanup ==
    \A r \in DOMAIN runs :
        (appMode = "OUTLINE" /\ runs[r].outcome = "written") =>
            /\ Len(runs[r].edges) = Len(runs[r].input.edges)
            /\ \A i \in DOMAIN runs[r].edges :
                  LET old == runs[r].input.edges[i]
                      new == runs[r].edges[i]
                  IN /\ new.sourceAnchor = "right"
                     /\ new.targetAnchor = "left"
                     /\ new.id = old.id
                     /\ new.sourceId = old.sourceId
                     /\ new.targetId = old.targetId
                     /\ new.label = old.label
                     /\ DOMAIN new = DOMAIN old
C26_Witness ==
    /\ appMode = "OUTLINE"
    /\ outcome = "written"
    /\ outlineEdges = LastRun.edges
    /\ Len(LastRun.edges) >= 2
    /\ \A i \in DOMAIN LastRun.edges : LastRun.input.edges[i].sourceAnchor = "bottom"

\* The nodes that are parents of id and sit in layer l - 1.
ParentsInLayer(id, l) == {p \in NodeIdSet : HasLink(p, id) /\ nodeLayer[p] = l - 1}

\* The cursor in front of the j-th placed node of layer l: 100 for the first,
\* else top + height + gap of the node before it.
CursorAt(l, j) ==
    IF j = 1 THEN Px(LayerTop)
    ELSE NumAdd(Bottom(NodeById(PlacedIn(l)[j - 1])), Px(Gap))

\* (min parent top + max parent bottom) / 2 - height / 2, from the positions
\* the parents have in the output.
CentredTop(id, l) ==
    LET ps == ParentsInLayer(id, l)
        tops == {NodeById(p).y : p \in ps}
        bottoms == {Bottom(NodeById(p)) : p \in ps}
    IN IF NaN \in tops \cup bottoms THEN NaN
       ELSE NumSub((SetMin(tops) + SetMax(bottoms)) \div 2, Px(HeightOf(NodeById(id))) \div 2)

\* C21: in the outline each layer is walked in its final order with a cursor
\* that starts at 100 and moves to top + height + 50; a node with a parent in
\* layer l - 1 gets top = max(cursor, centre of the parents' span - height / 2),
\* a node without one gets top = cursor.
C21_OutlinePlacement ==
    (appMode = "OUTLINE" /\ outcome = "written") =>
        \A l \in DOMAIN layers : \A j \in DOMAIN PlacedIn(l) :
            LET id == PlacedIn(l)[j]
            IN NodeById(id).y =
                  IF ParentsInLayer(id, l) # {}
                  THEN MathMax(CursorAt(l, j), CentredTop(id, l))
                  ELSE CursorAt(l, j)

\* C22 (as stated): a script node with a parent in layer l - 1 gets
\* top = max(cursor, centre of the parents' span - height / 2).
C22_ScriptCentred ==
    (appMode = "SCRIPT" /\ outcome = "written") =>
        \A l \in DOMAIN layers : \A j \in DOMAIN PlacedIn(l) :
            LET id == PlacedIn(l)[j]
            IN ParentsInLayer(id, l) # {} =>
                  NodeById(id).y = MathMax(CursorAt(l, j), CentredTop(id, l))

\* C22 (amended): every script node gets top = cursor, where the cursor of a
\* layer starts at 100 and moves to top + calculated height + 60.
C22_ScriptStacked ==
    (appMode = "SCRIPT" /\ outcome = "written") =>
        \A l \in DOMAIN layers : \A j \in DOMAIN PlacedIn(l) :
            NodeById(PlacedIn(l)[j]).y = CursorAt(l, j)
C22_Witness ==
    /\ appMode = "SCRIPT"
    /\ outcome = "written"
    /\ \E l \in DOMAIN layers : \E j \in DOMAIN PlacedIn(l) :
          LET id == PlacedIn(l)[j]
          IN /\ j >= 2
             /\ ParentsInLayer(id, l) # {}
             /\ NodeById(id).y = CursorAt(l, j)
    /\ \E l \in DOMAIN layers : \E j \in DOMAIN PlacedIn(l) :
          LET id == PlacedIn(l)[j]
          IN /\ ParentsInLayer(id, l) # {}
             /\ CentredTop(id, l) > CursorAt(l, j)

\* A node's score in layer l as a fraction: the mean of the indices its parents
\* of layer l - 1 have in that layer's final order, 9999 without such a parent.
RECURSIVE SetSum(_)
SetSum(S) == IF S = {} THEN 0 ELSE LET v == CHOOSE w \in S : TRUE IN v[2] + SetSum(S \ {v})
PrevOrder(l) == IF (l - 1) \in DOMAIN layers THEN layers[l - 1] ELSE <<>>
ScoreNum(id, l) ==
    IF ParentsInLayer(id, l) = {} THEN Unparented
    ELSE SetSum({<<p, IndexOf(PrevOrder(l), p)>> : p \in ParentsInLayer(id, l)})
ScoreDen(id, l) ==
    IF ParentsInLayer(id, l) = {} THEN 1 ELSE Cardinality(ParentsInLayer(id, l))
ScoreBelow(a, b, l) == ScoreNum(a, l) * ScoreDen(b, l) < ScoreNum(b, l) * ScoreDen(a, l)
ScoreSame(a, b, l) == ScoreNum(a, l) * ScoreDen(b, l) = ScoreNum(b, l) * ScoreDen(a, l)

\* C23: in the outline every layer l >= 1 is in ascending order of score, and
\* nodes of equal score are in the order in which they were first assigned a
\* layer.
C23_OutlineBarycenter ==
    (appMode = "OUTLINE" /\ outcome = "written") =>
        \A l \in DOMAIN layers : l >= 1 =>
            \A i, j \in DOMAIN PlacedIn(l) : i < j =>
                LET a == PlacedIn(l)[i]
                    b == PlacedIn(l)[j]
                IN \/ ScoreBelow(a, b, l)
                   \/ ScoreSame(a, b, l) /\ IndexOf(layerKeys, a) < IndexOf(layerKeys, b)

\* C24 (as stated): in every layer l >= 1 of a script layout a node without a
\* parent in layer l - 1 comes after every node of the layer that has one.
C24_UnparentedLast ==
    (appMode = "SCRIPT" /\ outcome = "written") =>
        \A l \in DOMAIN layers : l >= 1 =>
            \A i, j \in DOMAIN PlacedIn(l) : i < j =>
                ~(ParentsInLayer(PlacedIn(l)[i], l) = {} /\ ParentsInLayer(PlacedIn(l)[j], l) # {})

\* The ids of layer l in the order in which they were first given a layer.
AssignedOrder(l) == GroupLayer(nodeLayer, layerKeys, l)

\* The script score as a fraction: the mean index of the parents in layer
\* l - 1, or the node's own index in its layer when it has none.
OwnIndexNum(id, l) ==
    IF ParentsInLayer(id, l) = {} THEN IndexOf(AssignedOrder(l), id) ELSE ScoreNum(id, l)
OwnIndexBelow(a, b, l) == OwnIndexNum(a, l) * ScoreDen(b, l) < OwnIndexNum(b, l) * ScoreDen(a, l)
OwnIndexSame(a, b, l) == OwnIndexNum(a, l) * ScoreDen(b, l) = OwnIndexNum(b, l) * ScoreDen(a, l)

\* C24 (amended): a script node without a parent in layer l - 1 is scored by
\* its own index in the layer, not by a sentinel: the layer is in ascending
\* order of score, equal scores in order of first assignment, so such a node
\* follows a parented node only when that node's mean parent index is not
\* greater than the index.
C24_UnparentedByOwnIndex ==
    (appMode = "SCRIPT" /\ outcome = "written") =>
        \A l \in DOMAIN layers : l >= 1 =>
            \A i, j \in DOMAIN PlacedIn(l) : i < j =>
                LET a == PlacedIn(l)[i]
                    b == PlacedIn(l)[j]
                IN \/ OwnIndexBelow(a, b, l)
                   \/ /\ OwnIndexSame(a, b, l)
                      /\ IndexOf(AssignedOrder(l), a) < IndexOf(AssignedOrder(l), b)
C24_Witness ==
    /\ appMode = "SCRIPT"
    /\ outcome = "written"
    /\ \E l \in DOMAIN layers : \E i, j \in DOMAIN PlacedIn(l) :
          /\ l >= 1
          /\ i < j
          /\ ParentsInLayer(PlacedIn(l)[i], l) = {}
          /\ ParentsInLayer(PlacedIn(l)[j], l) # {}

\* The script has exactly one node of type START.
OnlyStart(id) == StartIds(nodes) = {id}

\* C25: the START node of a script is seeded first, and after the run it is
\* in layer 0 ahead of every other node of that layer, at x = 100, y = 100.
C25_StartNodeFirst ==
    (appMode = "SCRIPT" /\ RunEnded) =>
        \A s \in NodeIdSet : OnlyStart(s) =>
            /\ SeedQueue[1].id = s
            /\ outcome = "written"
            /\ nodeLayer[s] = 0
            /\ PlacedIn(0)[1] = s
            /\ NodeById(s).x = ColumnLeft
            /\ NodeById(s).y = Px(LayerTop)

\* The graph is acyclic: taking away the nodes without a parent, again and
\* again, leaves nothing.
RECURSIVE Peel(_)
Peel(S) ==
    LET free == {v \in S : ~\E p \in S : HasLink(p, v)}
    IN IF free = {} THEN S ELSE Peel(S \ free)
NoDangling ==
    \A i \in DOMAIN Links : Links[i].sourceId \in NodeIdSet /\ Links[i].targetId \in NodeIdSet
Acyclic ==
    /\ \A i \in DOMAIN Links : Links[i].sourceId # Links[i].targetId
    /\ Peel(NodeIdSet) = {}

\* Number of edges on the longest path that ends at id (acyclic graphs only).
RECURSIVE LongestPathTo(_)
LongestPathTo(id) ==
    LET ps == {p \in NodeIdSet : HasLink(p, id)}
    IN IF ps = {} THEN 0 ELSE 1 + SetMax({LongestPathTo(p) : p \in ps})
ShallowDag ==
    /\ NoDangling
    /\ Acyclic
    /\ \A id \in NodeIdSet : LongestPathTo(id) < DepthCeiling

\* C27: on an acyclic graph without dangling edges whose longest path has
\* fewer than 50 edges, every node's final layer is the number of edges on the
\* longest path that ends at it.
C27_LongestPathLayering ==
    (RunEnded /\ ShallowDag) =>
        \A id \in NodeIdSet : nodeLayer[id] = LongestPathTo(id)
C27_Witness ==
    /\ RunEnded
    /\ ShallowDag
    /\ \E a, c \in NodeIdSet : HasLink(a, c) /\ nodeLayer[a] = 0 /\ nodeLayer[c] = 2

\* The layers that hold a node after the run.
UsedLayers == {nodeLayer[id] : id \in NodeIdSet}

\* C28: on an acyclic graph without dangling edges whose longest path has
\* fewer than 50 edges, every node of a layer l >= 1 has a parent in layer
\* l - 1, and the layers in use are exactly 0..maxLayer, layer 0 included.
C28_NoEmptyLayer ==
    (RunEnded /\ ShallowDag) =>
        /\ \A id \in NodeIdSet :
              nodeLayer[id] >= 1 => ParentsInLayer(id, nodeLayer[id]) # {}
        /\ 0 \in UsedLayers
        /\ UsedLayers = 0..SetMax(UsedLayers)
        /\ DOMAIN layers = UsedLayers
C28_Witness ==
    /\ RunEnded
    /\ ShallowDag
    /\ SetMax(UsedLayers) = 2
    /\ \E id \in NodeIdSet :
          /\ nodeLayer[id] = 2
          /\ \E p \in NodeIdSet : HasLink(p, id) /\ nodeLayer[p] = 0

\* C29: on an acyclic graph without dangling edges, a second layout of what
\* the first one wrote completes and writes the same x and y for every node.
C29_PositionsIdempotent ==
    (RanOnOwnOutput /\ pc = "idle" /\ trail = <<>> /\ ShallowDag) =>
        /\ runs[2].outcome = "written"
        /\ PositionsOf(runs[2].nodes) = PositionsOf(runs[1].nodes)
C29_Witness ==
    /\ RanOnOwnOutput
    /\ pc = "idle"
    /\ trail = <<>>
    /\ ShallowDag
    /\ PositionsOf(runs[1].nodes) # PositionsOf(runs[1].input.nodes)
    /\ Len(runs[2].layers[0]) >= 2
    /\ 1 \in DOMAIN runs[2].layers

\* C30: each history stack holds between 1 and 50 entries and its index points
\* at one of them, whatever layouts, undos and redos have happened.
C30_HistoryWellFormed ==
    /\ Len(scriptHistory) \in 1..MaxHistory
    /\ scriptHistoryIndex \in 0..(Len(scriptHistory) - 1)
    /\ Len(outlineHistory) \in 1..MaxHistory
    /\ outlineHistoryIndex \in 0..(Len(outlineHistory) - 1)

====
